---- MODULE Spec2Model ----
(***************************************************************************)
(* Model of src/src/App.jsx: the App component's state (isMenuOpen,        *)
(* activeSection), its scroll-event subscription (useEffect), the scroll   *)
(* handler handleScroll, scrollToSection and the mobile menu button,       *)
(* running against a document made of the five sections and the footer     *)
(* that App renders.  Lengths are CSS pixels.                              *)
(***************************************************************************)
EXTENDS Integers, Sequences, FiniteSets

(***************************************************************************)
(* Bounds of the model (not program constants).                            *)
(***************************************************************************)
\* Height of a section with little content.
BaseHeight == 200
\* Additional height of a section with much content.
TallExtra == 100
\* Height of the footer that follows the last section.
FooterHeight == 100
\* At most this many sections are tall in one layout.
MaxTall == 1
\* Grid of the scroll offsets the browser reports, and the step of a smooth scroll.
ScrollStep == 100
\* At most this many section elements are taken out of the document by a foreign script.
MaxMissing == 1
\* The negative top margin a foreign style sheet gives the sections, so that the
\* ranges of consecutive sections overlap.
SectionOverlap == 100

\* The viewport heights tried: a very small window and an ordinary one.
ViewportHeights == {200, 600}

(***************************************************************************)
(* Program constants.                                                      *)
(***************************************************************************)
\* The ids of the <section> elements, in document order.
DocumentOrder == <<"home", "about", "skills", "projects", "contact">>

\* const navItems = [...]
NavItemsConst ==
    << [id |-> "home", label |-> "Home"],
       [id |-> "about", label |-> "About"],
       [id |-> "skills", label |-> "Skills"],
       [id |-> "projects", label |-> "Projects"],
       [id |-> "contact", label |-> "Contact"] >>

\* const skills = {...}
SkillsConst ==
    [frontend |-> <<"React", "Vue.js", "TypeScript", "Tailwind CSS", "Next.js">>,
     backend |-> <<"Node.js", "Python", "Express", "Django", "PostgreSQL">>,
     tools |-> <<"Docker", "AWS", "Git", "Jenkins", "Kubernetes">>,
     mobile |-> <<"React Native", "Flutter", "iOS", "Android">>]

\* const projects = [...] (id, title, featured of each record)
ProjectsConst ==
    << [id |-> 1, title |-> "E-Commerce Platform", featured |-> TRUE],
       [id |-> 2, title |-> "Task Management App", featured |-> TRUE],
       [id |-> 3, title |-> "Weather Dashboard", featured |-> FALSE] >>

\* The targets of the hero section's buttons and chevron.
HeroTargets == {"projects", "contact", "about"}

Range(seq) == {seq[i] : i \in 1..Len(seq)}

SectionIds == Range(DocumentOrder)

\* What document.getElementById returns for an id that is not in the document.
Null == [null |-> TRUE]

\* scrollRequest when no smooth scroll is under way.
NoRequest == "none"

\* lastMatch while no handled scroll event has matched a section.
NoMatchYet == "no-match-yet"

\* What one pass of the handler's loop yields when no section matched.
NoWrite == "no-write"

\* What one pass yields when it dereferences a missing element.
TypeError == "TypeError"

Max(a, b) == IF a >= b THEN a ELSE b
Min(a, b) == IF a <= b THEN a ELSE b

VARIABLES
    phase,          \* "rendered", "mounted", "unmounted"
    isMenuOpen,     \* useState(false)
    activeSection,  \* useState('home')
    navItems,       \* the navItems array
    skills,         \* the skills object
    projects,       \* the projects array
    listeners,      \* number of handleScroll closures registered on window for 'scroll'
    present,        \* ids of the section elements in the document
    tall,           \* ids of the sections with much content
    innerHeight,    \* height of the viewport
    overlap,        \* by how much each section is pulled over the one before it
    scrollY,        \* window.scrollY
    scrollRequest,  \* id of the section a smooth scroll is heading to, or NoRequest
    threw,          \* an uncaught error was raised by a handler
    lastOp,         \* the operation that led to this state
    lastMatch,      \* history: the section matched by the latest handled scroll event
                    \* that matched one, NoMatchYet before
    scrolled,       \* history: a scroll event has been handled
    settled         \* history: the section at which a smooth scroll has just ended

vars == <<phase, isMenuOpen, activeSection, navItems, skills, projects, listeners,
          present, tall, innerHeight, overlap, scrollY, scrollRequest, threw, lastOp,
          lastMatch, scrolled, settled>>

(***************************************************************************)
(* The document: the five sections are consecutive block-level siblings,   *)
(* followed by the footer; their offsetParent is the body.                 *)
(***************************************************************************)
\* element.offsetHeight of a section in the document. #home is min-h-screen.
OffsetHeightIn(dom, vh, tl, id) ==
    LET content == IF id \in tl THEN BaseHeight + TallExtra ELSE BaseHeight
    IN  IF id = "home" THEN Max(vh, content) ELSE content

RECURSIVE StackedBefore(_, _, _, _, _)
\* Sum of the heights of the elements of the document among the first n sections.
StackedBefore(dom, vh, tl, order, n) ==
    IF n = 0 THEN 0
    ELSE StackedBefore(dom, vh, tl, order, n - 1)
         + (IF order[n] \in dom THEN OffsetHeightIn(dom, vh, tl, order[n]) ELSE 0)

IndexOf(id) == CHOOSE i \in 1..Len(DocumentOrder) : DocumentOrder[i] = id

\* The number of elements of the document among the first n sections.
CountBefore(dom, n) == Cardinality({i \in 1..n : DocumentOrder[i] \in dom})

\* element.offsetTop of a section in the document.
OffsetTopIn(dom, vh, tl, id) ==
    LET n == IndexOf(id) - 1
    IN  StackedBefore(dom, vh, tl, DocumentOrder, n)
        - (IF overlap = 0 THEN 0 ELSE overlap * CountBefore(dom, n))

\* document.getElementById(id)
GetElementByIdIn(dom, vh, tl, id) ==
    IF id \in dom
    THEN [offsetTop |-> OffsetTopIn(dom, vh, tl, id),
          offsetHeight |-> OffsetHeightIn(dom, vh, tl, id)]
    ELSE Null

GetElementById(id) == GetElementByIdIn(present, innerHeight, tall, id)

\* Height of the document: the sections, then the footer (both while App is rendered).
DocumentHeightIn(dom, vh, tl, ph) ==
    IF ph \in {"rendered", "mounted"}
    THEN StackedBefore(dom, vh, tl, DocumentOrder, Len(DocumentOrder))
         - (IF overlap = 0 THEN 0
            ELSE overlap * Max(0, CountBefore(dom, Len(DocumentOrder)) - 1))
         + FooterHeight
    ELSE 0

\* The largest scroll offset the viewport can take.
MaxScrollYIn(dom, vh, tl, ph) == Max(0, DocumentHeightIn(dom, vh, tl, ph) - vh)

MaxScrollY == MaxScrollYIn(present, innerHeight, tall, phase)

\* The scroll offsets a scroll event can report.
ScrollOffsetsIn(dom, vh, tl, ph) ==
    LET m == MaxScrollYIn(dom, vh, tl, ph)
    IN  {k * ScrollStep : k \in 0..(m \div ScrollStep)} \cup {m}

ScrollOffsets == ScrollOffsetsIn(present, innerHeight, tall, phase)

(***************************************************************************)
(* handleScroll                                                            *)
(***************************************************************************)
\* Mutant: the bottom edge of the viewport is used as the scroll position.
Bias_ViewportBottom == innerHeight

\* const scrollPosition = window.scrollY + 100
Bias == 100

\* Mutant: the upper end of the range is inclusive.
InRange_Inclusive(scrollPosition, element) ==
    /\ scrollPosition >= element.offsetTop
    /\ scrollPosition <= element.offsetTop + element.offsetHeight

\* scrollPosition >= offsetTop && scrollPosition < offsetTop + offsetHeight
InRange(scrollPosition, element) ==
    /\ scrollPosition >= element.offsetTop
    /\ scrollPosition < element.offsetTop + element.offsetHeight

RECURSIVE ForSections_NoGuard(_, _, _, _, _)
\* Mutant: the loop has no "if (element)" and dereferences a missing element.
ForSections_NoGuard(sections, scrollPosition, dom, vh, tl) ==
    IF sections = << >> THEN NoWrite
    ELSE LET section == Head(sections)
             element == GetElementByIdIn(dom, vh, tl, section)
         IN  IF element = Null THEN TypeError
             ELSE IF scrollPosition >= element.offsetTop
                     /\ scrollPosition < element.offsetTop + element.offsetHeight
                  THEN section
                  ELSE ForSections_NoGuard(Tail(sections), scrollPosition, dom, vh, tl)

RECURSIVE ForSections_LastMatch(_, _, _, _, _)
\* Mutant: the loop has no break, so the last section that matches is the one set.
ForSections_LastMatch(sections, scrollPosition, dom, vh, tl) ==
    IF sections = << >> THEN NoWrite
    ELSE LET section == Head(sections)
             element == GetElementByIdIn(dom, vh, tl, section)
             rest == ForSections_LastMatch(Tail(sections), scrollPosition, dom, vh, tl)
         IN  IF element # Null /\ InRange(scrollPosition, element) /\ rest = NoWrite
             THEN section
             ELSE rest

RECURSIVE ForSections(_, _, _, _, _)
\* for (const section of sections) { ... }: the id passed to setActiveSection,
\* or NoWrite when the loop ends without a match.
ForSections(sections, scrollPosition, dom, vh, tl) ==
    IF sections = << >> THEN NoWrite
    ELSE LET section == Head(sections)
             element == GetElementByIdIn(dom, vh, tl, section)
         IN  IF element # Null
             THEN IF InRange(scrollPosition, element)
                  THEN section
                  ELSE ForSections(Tail(sections), scrollPosition, dom, vh, tl)
             ELSE ForSections(Tail(sections), scrollPosition, dom, vh, tl)

RECURSIVE SetCalls(_, _, _, _, _)
\* The number of calls of setActiveSection in one run of the loop: the break
\* ends the loop at the first call.
SetCalls(sections, scrollPosition, dom, vh, tl) ==
    IF sections = << >> THEN 0
    ELSE LET element == GetElementByIdIn(dom, vh, tl, Head(sections))
         IN  IF element # Null /\ InRange(scrollPosition, element)
             THEN 1
             ELSE SetCalls(Tail(sections), scrollPosition, dom, vh, tl)

\* const sections = navItems.map(item => item.id)
MapIds(items) == [i \in 1..Len(items) |-> items[i].id]

\* Mutant: the scroll position is window.scrollY, without the 100 px.
HandleScrollResult_NoBias(items, y, dom, vh, tl) ==
    ForSections(MapIds(items), y, dom, vh, tl)

\* One run of handleScroll: what it passes to setActiveSection, NoWrite or TypeError.
HandleScrollResult(items, y, dom, vh, tl) ==
    ForSections(MapIds(items), y + Bias, dom, vh, tl)

\* Mutant: without a match the first section becomes active.
HandleScroll_HomeOnMiss(active, items, y, dom, vh, tl) ==
    LET r == HandleScrollResult(items, y, dom, vh, tl)
    IN  IF r = TypeError THEN active ELSE IF r = NoWrite THEN items[1].id ELSE r

\* Mutant: without a match the last section becomes active.
HandleScroll_PinOnMiss(active, items, y, dom, vh, tl) ==
    LET r == HandleScrollResult(items, y, dom, vh, tl)
    IN  IF r = TypeError THEN active ELSE IF r = NoWrite THEN items[Len(items)].id ELSE r

\* Mutant: without a match the active state is cleared.
HandleScroll_ClearOnMiss(active, items, y, dom, vh, tl) ==
    LET r == HandleScrollResult(items, y, dom, vh, tl)
    IN  IF r = TypeError THEN active ELSE IF r = NoWrite THEN "" ELSE r

\* Mutant: without a match the section after the active one becomes active.
HandleScroll_NextOnMiss(active, items, y, dom, vh, tl) ==
    LET r == HandleScrollResult(items, y, dom, vh, tl)
        ids == MapIds(items)
        at == {i \in 1..Len(ids) : ids[i] = active}
        i == IF at = {} THEN 1 ELSE CHOOSE j \in at : TRUE
    IN  IF r = TypeError THEN active
        ELSE IF r = NoWrite THEN ids[IF i < Len(ids) THEN i + 1 ELSE 1]
        ELSE r

\* activeSection after one run of handleScroll.
HandleScroll(active, items, y, dom, vh, tl) ==
    LET r == HandleScrollResult(items, y, dom, vh, tl)
    IN  IF r \in {NoWrite, TypeError} THEN active ELSE r

RECURSIVE Dispatch(_, _, _, _, _, _, _)
\* The window dispatches a scroll event to each of its n listeners.
Dispatch(n, active, items, y, dom, vh, tl) ==
    IF n = 0 THEN active
    ELSE Dispatch(n - 1, HandleScroll(active, items, y, dom, vh, tl), items, y, dom, vh, tl)

\* Some listener of the event raised an error.
DispatchThrows(n, items, y, dom, vh, tl) ==
    n > 0 /\ HandleScrollResult(items, y, dom, vh, tl) = TypeError

(***************************************************************************)
(* Initial state: App has rendered, its effect has not run yet.            *)
(***************************************************************************)
Rendered(margin) ==
    /\ phase = "rendered"
    /\ overlap = margin
    /\ isMenuOpen = FALSE
    /\ activeSection = "home"
    /\ navItems = NavItemsConst
    /\ skills = SkillsConst
    /\ projects = ProjectsConst
    /\ listeners = 0
    /\ present = SectionIds
    /\ tall \in {t \in SUBSET SectionIds : Cardinality(t) <= MaxTall}
    /\ innerHeight \in ViewportHeights
    /\ scrollY \in ScrollOffsetsIn(SectionIds, innerHeight, tall, "rendered")
    /\ scrollRequest = NoRequest
    /\ threw = FALSE
    /\ lastOp = "render"
    /\ lastMatch = NoMatchYet
    /\ scrolled = FALSE
    /\ settled = NoRequest

\* The page as App's own style sheet lays it out: the sections do not overlap.
Init == Rendered(0)

Constants == <<navItems, skills, projects>>
Geometry == <<tall, innerHeight, overlap>>
History == <<lastMatch, scrolled>>

(***************************************************************************)
(* useEffect(() => {...; window.addEventListener('scroll', handleScroll);  *)
(*                  return () => window.removeEventListener(...)}, [])     *)
(***************************************************************************)
\* window.addEventListener('scroll', handleScroll)
AddEventListener(n) == n + 1

\* Mutant: the cleanup passes a function that was never registered.
RemoveEventListener_OtherFunction(n) == n

\* window.removeEventListener('scroll', handleScroll)
RemoveEventListener(n) == IF n > 0 THEN n - 1 ELSE 0

\* Mutant: the effect also calls handleScroll() once when it runs.
MountEffect_InitialCall ==
    /\ phase = "rendered"
    /\ phase' = "mounted"
    /\ listeners' = AddEventListener(listeners)
    /\ activeSection' = HandleScroll(activeSection, navItems, scrollY, present, innerHeight, tall)
    /\ lastOp' = "mount"
    /\ settled' = NoRequest
    /\ UNCHANGED <<isMenuOpen, Constants, present, Geometry, scrollY, scrollRequest, threw,
                   History>>

\* The effect runs once after the first render.
MountEffect ==
    /\ phase = "rendered"
    /\ phase' = "mounted"
    /\ listeners' = AddEventListener(listeners)
    /\ lastOp' = "mount"
    /\ settled' = NoRequest
    /\ UNCHANGED <<isMenuOpen, activeSection, Constants, present, Geometry, scrollY,
                   scrollRequest, threw, History>>

\* App is unmounted: the effect's cleanup runs and App's elements leave the
\* document, which collapses.
Unmount ==
    /\ phase = "mounted"
    /\ phase' = "unmounted"
    /\ listeners' = RemoveEventListener(listeners)
    /\ present' = {}
    /\ scrollY' = 0
    /\ scrollRequest' = NoRequest
    /\ lastOp' = "unmount"
    /\ settled' = NoRequest
    /\ UNCHANGED <<isMenuOpen, activeSection, Constants, Geometry, threw, History>>

(***************************************************************************)
(* Scroll events                                                           *)
(***************************************************************************)
\* The values of lastOp after a scroll event; "rescroll" is a handled event that
\* reports the same scrollY as the handled event right before it.
ScrollOps == {"scroll", "rescroll", "smooth"}

\* offsetTop <= pos < offsetTop + offsetHeight, for a section in the document.
Contains(id, pos) ==
    /\ id \in present
    /\ LET top == OffsetTopIn(present, innerHeight, tall, id)
       IN  /\ top <= pos
           /\ pos < top + OffsetHeightIn(present, innerHeight, tall, id)

\* The sections whose range contains the biased offset of scroll offset y.
Matching(y) == {id \in SectionIds : Contains(id, y + 100)}

\* The first section in document order among those that contain the biased offset.
FirstMatching(y) ==
    LET m == Matching(y)
    IN  CHOOSE id \in m : \A other \in m : IndexOf(id) <= IndexOf(other)

\* The window's scroll offset becomes y and a scroll event is dispatched.
FireScroll(y) ==
    /\ scrollY' = y
    /\ lastMatch' = IF listeners > 0 /\ \E id \in SectionIds : Contains(id, y + 100)
                    THEN FirstMatching(y) ELSE lastMatch
    /\ scrolled' = (scrolled \/ listeners > 0)
    /\ activeSection' =
           Dispatch(listeners, activeSection, navItems, y, present, innerHeight, tall)
    /\ threw' = (threw \/ DispatchThrows(listeners, navItems, y, present, innerHeight, tall))

\* The user scrolls (wheel, keys, scroll bar, touch); this ends a smooth scroll.
\* An event may report the same scrollY as the one before (a horizontal scroll).
ScrollEvent ==
    \E y \in ScrollOffsets :
        /\ FireScroll(y)
        /\ scrollRequest' = NoRequest
        /\ settled' = NoRequest
        /\ lastOp' = IF listeners > 0 /\ y = scrollY /\ lastOp \in ScrollOps
                     THEN "rescroll" ELSE "scroll"
        /\ UNCHANGED <<phase, isMenuOpen, Constants, listeners, present, Geometry>>

\* Where a smooth scroll to the section ends: its top, or as far as the document goes.
ScrollTarget(id) == Min(GetElementById(id).offsetTop, MaxScrollY)

\* One frame of the smooth scroll started by scrollIntoView: the viewport moves to
\* the next offset of the grid on the way, or to where the scroll ends.
SmoothScrollStep ==
    /\ scrollRequest # NoRequest
    /\ scrollRequest \in present
    /\ LET target == ScrollTarget(scrollRequest)
               down == {o \in ScrollOffsets : o > scrollY /\ o < target}
           up == {o \in ScrollOffsets : o < scrollY /\ o > target}
           y == IF down # {} THEN CHOOSE o \in down : \A p \in down : o <= p
                ELSE IF up # {} THEN CHOOSE o \in up : \A p \in up : o >= p
                ELSE target
       IN  /\ FireScroll(y)
           /\ scrollRequest' = IF y = target THEN NoRequest ELSE scrollRequest
           /\ settled' = IF y = target THEN scrollRequest ELSE NoRequest
    /\ lastOp' = "smooth"
    /\ UNCHANGED <<phase, isMenuOpen, Constants, listeners, present, Geometry>>

(***************************************************************************)
(* scrollToSection and the menu button                                     *)
(***************************************************************************)
\* if (element) { element.scrollIntoView({ behavior: 'smooth' }) }: the smooth
\* scroll under way afterwards. A new one replaces the one under way; none starts
\* when the viewport is already where it would end.
ScrollIntoView(request, sectionId) ==
    IF GetElementById(sectionId) # Null
    THEN IF ScrollTarget(sectionId) # scrollY THEN sectionId ELSE NoRequest
    ELSE request

\* Mutant: scrollToSection also makes the section active.
ScrollToSection_SetsActive(sectionId) ==
    /\ scrollRequest' = ScrollIntoView(scrollRequest, sectionId)
    /\ isMenuOpen' = FALSE
    /\ activeSection' = sectionId
    /\ settled' = NoRequest
    /\ UNCHANGED <<phase, Constants, listeners, present, Geometry, scrollY, threw, History>>

\* Mutant: setIsMenuOpen(false) is inside the "if (element)" block.
ScrollToSection_CloseOnlyIfFound(sectionId) ==
    /\ scrollRequest' = ScrollIntoView(scrollRequest, sectionId)
    /\ isMenuOpen' = IF GetElementById(sectionId) # Null THEN FALSE ELSE isMenuOpen
    /\ settled' = NoRequest
    /\ UNCHANGED <<phase, activeSection, Constants, listeners, present, Geometry, scrollY,
                   threw, History>>

\* const scrollToSection = (sectionId) => {...}
ScrollToSection(sectionId) ==
    /\ scrollRequest' = ScrollIntoView(scrollRequest, sectionId)
    /\ isMenuOpen' = FALSE
    /\ settled' = NoRequest
    /\ UNCHANGED <<phase, activeSection, Constants, listeners, present, Geometry, scrollY,
                   threw, History>>

\* A click on an item of the desktop or of the mobile navigation.
NavClick ==
    /\ phase \in {"rendered", "mounted"}
    /\ \E i \in 1..Len(navItems) : ScrollToSection(navItems[i].id)
    /\ lastOp' = "nav"

\* A click on "View My Work", "Get In Touch" or the chevron of the hero section.
HeroClick ==
    /\ phase \in {"rendered", "mounted"}
    /\ \E id \in HeroTargets : ScrollToSection(id)
    /\ lastOp' = "hero"

\* onClick={() => setIsMenuOpen(!isMenuOpen)}
ToggleMenu ==
    /\ phase \in {"rendered", "mounted"}
    /\ isMenuOpen' = ~isMenuOpen
    /\ lastOp' = "menu"
    /\ settled' = NoRequest
    /\ UNCHANGED <<phase, activeSection, Constants, listeners, present, Geometry, scrollY,
                   scrollRequest, threw, History>>

(***************************************************************************)
(* The desktop navigation, as rendered from the state                      *)
(***************************************************************************)
\* Mutant: the item's label is compared with activeSection.
ClassName_ByLabel(item, active) ==
    IF active = item.label THEN "text-primary" ELSE "text-muted-foreground"

\* activeSection === item.id ? 'text-primary' : 'text-muted-foreground'
ClassName(item, active) ==
    IF active = item.id THEN "text-primary" ELSE "text-muted-foreground"

\* The positions of the highlighted buttons of the desktop navigation.
HighlightedItems ==
    {i \in 1..Len(navItems) : ClassName(navItems[i], activeSection) = "text-primary"}

Next ==
    \/ MountEffect
    \/ Unmount
    \/ ScrollEvent
    \/ SmoothScrollStep
    \/ NavClick
    \/ HeroClick
    \/ ToggleMenu

Spec == Init /\ [][Next]_vars

(***************************************************************************)
(* The same program in a document that a foreign script (an extension, the *)
(* developer tools) edits: it may take section elements out.               *)
(***************************************************************************)
RemoveElement ==
    /\ phase \in {"rendered", "mounted"}
    /\ Cardinality(SectionIds \ present) < MaxMissing
    /\ \E id \in present :
        /\ present' = present \ {id}
        /\ scrollY' = Min(scrollY, MaxScrollYIn(present \ {id}, innerHeight, tall, phase))
        /\ scrollRequest' = IF scrollRequest = id THEN NoRequest ELSE scrollRequest
    /\ lastOp' = "dom"
    /\ settled' = NoRequest
    /\ UNCHANGED <<phase, isMenuOpen, activeSection, Constants, listeners, Geometry, threw,
                   History>>

\* The layouts tried under foreign edits: no section is tall.
InitDom == Init /\ tall = {}

NextDom == Next \/ RemoveElement

SpecDom == InitDom /\ [][NextDom]_vars

(***************************************************************************)
(* The same program under a foreign style sheet that makes the sections    *)
(* overlap: the input on which the order of the loop and its break decide. *)
(***************************************************************************)
InitOverlap == Rendered(SectionOverlap) /\ tall = {}

SpecOverlap == InitOverlap /\ [][Next]_vars

(***************************************************************************)
(* Properties                                                              *)
(***************************************************************************)
\* The state is the one right after handleScroll ran for a scroll event.
HandlerRan == lastOp \in ScrollOps /\ listeners > 0

\* C1: after the handler ran for a scroll event, every section whose element
\* exists and whose range [offsetTop, offsetTop + offsetHeight) contains
\* scrollY + 100 is the active section.
C1_ContainingSectionIsActive ==
    HandlerRan => \A id \in SectionIds : Contains(id, scrollY + 100) => activeSection = id

\* The bias decided: the viewport's top is still above the section that became active.
C1_Witness ==
    /\ HandlerRan
    /\ activeSection = "about"
    /\ Contains("about", scrollY + 100)
    /\ Contains("home", scrollY)

\* C2: a scroll event whose biased offset lies in no section's range leaves
\* activeSection as it was before the event.
C2_NoMatchRetainsActive ==
    [][(lastOp' \in ScrollOps /\ present' = present /\ Matching(scrollY') = {})
          => activeSection' = activeSection]_vars

\* Scrolled past the last section while the first one is still the active one.
C2_Witness ==
    /\ HandlerRan
    /\ phase = "mounted"
    /\ Matching(scrollY) = {}
    /\ scrollY + 100 >= OffsetTopIn(present, innerHeight, tall, "contact")
                        + OffsetHeightIn(present, innerHeight, tall, "contact")
    /\ activeSection = "home"

\* C3: activeSection is always one of home, about, skills, projects, contact,
\* and it is home after the first render.
C3_ActiveIsASection ==
    /\ activeSection \in {"home", "about", "skills", "projects", "contact"}
    /\ lastOp = "render" => activeSection = "home"

\* A scroll event without a match was handled while another section than the first
\* was active.
C3_Witness ==
    /\ HandlerRan
    /\ Matching(scrollY) = {}
    /\ activeSection = "projects"

\* C4: after the handler ran for a scroll event with window.scrollY = 0, the
\* active section is home.
C4_TopOfPageIsHome ==
    (HandlerRan /\ scrollY = 0) => activeSection = "home"

\* Back at the top after another section was active: a smooth scroll to home ended.
C4_Witness ==
    /\ lastOp = "smooth"
    /\ listeners > 0
    /\ scrollY = 0
    /\ scrollRequest = NoRequest
    /\ activeSection = "home"

\* C5: for every scroll offset, at most one section passes the handler's
\* containment test. Each state checks the offsets from scrollY up to the next
\* offset of the grid; the scroll events take scrollY to every offset of the grid.
C5_AtMostOneMatch ==
    LET element == [id \in present |-> GetElementById(id)]
    IN  \A y \in scrollY..Min(scrollY + ScrollStep, MaxScrollY) :
            Cardinality({id \in present : InRange(y + Bias, element[id])}) <= 1

\* The biased offset is exactly the boundary between two sections.
C5_Witness ==
    /\ HandlerRan
    /\ scrollY + 100 = OffsetTopIn(present, innerHeight, tall, "skills")
    /\ "about" \in present
    /\ activeSection = "skills"

\* C6: a handled scroll event that reports the same scrollY as the handled event
\* right before it leaves activeSection as the first of the two left it.
C6_Idempotent ==
    [][lastOp' = "rescroll" => activeSection' = activeSection]_vars

\* The same offset was handled twice, once with a match and once without one.
C6_Witness ==
    /\ lastOp = "rescroll"
    /\ \/ Matching(scrollY) = {} /\ activeSection = "home"
       \/ Matching(scrollY) = {"projects"}

\* C7: handleScroll is registered exactly while App is mounted, once, and is
\* registered no more after the unmount; no step after the unmount changes
\* activeSection.
C7_SubscriptionScoped ==
    /\ [](listeners = IF phase = "mounted" THEN 1 ELSE 0)
    /\ [][phase = "unmounted" => activeSection' = activeSection]_vars

\* A scroll event after the unmount; being at the top, it would have selected home.
C7_Witness ==
    /\ phase = "unmounted"
    /\ lastOp = "scroll"
    /\ listeners = 0
    /\ activeSection = "contact"

\* The items whose element is in the document.
PresentItems == SelectSeq(navItems, LAMBDA item : item.id \in present)

\* C8: with section elements missing, the handler raises no error, never
\* selects a missing section, and does what it does on the list without the
\* missing sections.
C8_MissingElementSkipped ==
    /\ ~threw
    /\ \A y \in ScrollOffsets :
        LET r == HandleScrollResult(navItems, y, present, innerHeight, tall)
        IN  /\ r # TypeError
            /\ r \notin SectionIds \ present
            /\ r = HandleScrollResult(PresentItems, y, present, innerHeight, tall)
            /\ (HandlerRan /\ y = scrollY /\ r # NoWrite) => activeSection = r

\* The handler passed over a missing element and selected a section after it.
C8_Witness ==
    /\ HandlerRan
    /\ Matching(scrollY) = {activeSection}
    /\ \E id \in SectionIds \ present : IndexOf(id) < IndexOf(activeSection)

\* The step is a click on a navigation item, a hero button or the menu button.
UserAction == lastOp' \in {"nav", "hero", "menu"}

\* C9 as stated: no user action changes application state other than
\* activeSection, and navItems, skills and projects never change.
C9_OnlyActiveSectionMutates ==
    [][/\ UserAction => isMenuOpen' = isMenuOpen
       /\ Constants' = Constants]_vars

\* C9 amended: a user action changes no application state other than
\* isMenuOpen (activeSection included), and navItems, skills and projects
\* never change.
C9_UserActionsChangeOnlyMenu ==
    [][/\ UserAction => (activeSection' = activeSection /\ listeners' = listeners
                          /\ phase' = phase)
       /\ Constants' = Constants]_vars

\* A navigation click closed the open menu while another section than its target
\* stayed active.
C9_Witness ==
    /\ lastOp = "nav"
    /\ ~isMenuOpen
    /\ scrollRequest = "contact"
    /\ activeSection = "about"

\* Distance from pos to the range of a section, 0 inside it.
RangeDistance(id, pos) ==
    LET top == OffsetTopIn(present, innerHeight, tall, id)
        end == top + OffsetHeightIn(present, innerHeight, tall, id)
    IN  IF pos < top THEN top - pos ELSE IF pos >= end THEN pos - end + 1 ELSE 0

\* Distance from pos to the top of a section.
TopDistance(id, pos) ==
    LET top == OffsetTopIn(present, innerHeight, tall, id)
    IN  IF pos < top THEN top - pos ELSE pos - top

\* The sections nearest pos, by range and by top.
NearestByRange(pos) ==
    {id \in present : \A other \in present : RangeDistance(id, pos) <= RangeDistance(other, pos)}
NearestByTop(pos) ==
    {id \in present : \A other \in present : TopDistance(id, pos) <= TopDistance(other, pos)}

\* C10 as stated: after each handled scroll event activeSection is the section
\* nearest the scroll offset (by any of: distance to the section's range or to
\* its top, from window.scrollY or from window.scrollY + 100).
C10_NearestIsActive ==
    (HandlerRan /\ phase = "mounted") =>
        activeSection \in NearestByRange(scrollY) \cup NearestByRange(scrollY + 100)
                          \cup NearestByTop(scrollY) \cup NearestByTop(scrollY + 100)

\* C10 amended: a handled scroll event makes the section whose range contains
\* window.scrollY + 100 the active one, and changes nothing when there is none.
C10_ContainmentDecides ==
    [][(lastOp' \in ScrollOps /\ listeners > 0 /\ present' = present) =>
          \/ Matching(scrollY') = {activeSection'}
          \/ Matching(scrollY') = {} /\ activeSection' = activeSection]_vars

\* The active section is not the nearest one: past the last section with an
\* earlier section still active.
C10_Witness ==
    /\ HandlerRan
    /\ phase = "mounted"
    /\ Matching(scrollY) = {}
    /\ activeSection = "skills"
    /\ NearestByRange(scrollY + 100) = {"contact"}

\* The position of a section in navItems.
NavIndex(id) == CHOOSE i \in 1..Len(navItems) : navItems[i].id = id

\* C11: after a handled scroll event, when one or more sections contain
\* window.scrollY + 100, the active section is the one of them that comes first
\* in navItems (home, about, skills, projects, contact), and one run of the
\* handler calls setActiveSection at most once.
C11_FirstMatchInOrder ==
    /\ MapIds(navItems) = <<"home", "about", "skills", "projects", "contact">>
    /\ SetCalls(MapIds(navItems), scrollY + 100, present, innerHeight, tall) <= 1
    /\ (HandlerRan /\ Matching(scrollY) # {}) =>
          /\ activeSection \in Matching(scrollY)
          /\ \A id \in Matching(scrollY) : NavIndex(activeSection) <= NavIndex(id)

\* Two ranges contain the biased offset and the earlier section is the active one.
C11_Witness ==
    /\ HandlerRan
    /\ Matching(scrollY) = {"about", "skills"}
    /\ activeSection = "about"

\* C12: only a handled scroll event changes activeSection: every step that
\* changes it is a scroll event dispatched to the registered handler of the
\* mounted App; clicks on navigation items, hero buttons and the menu button
\* leave it unchanged. Each handler is one step, so no state lies between the
\* handler's read of the offset and its write.
C12_SingleWriter ==
    [][activeSection' # activeSection =>
          (lastOp' \in ScrollOps /\ listeners > 0 /\ phase = "mounted")]_vars

\* A hero button was clicked while the target was not the active section.
C12_Witness ==
    /\ lastOp = "hero"
    /\ phase = "mounted"
    /\ scrollRequest = "projects"
    /\ activeSection = "skills"

\* C13: while App is rendered, exactly one button of the desktop navigation
\* is highlighted, and it is the one whose id is activeSection.
C13_OneHighlight ==
    phase \in {"rendered", "mounted"} =>
        /\ Cardinality(HighlightedItems) = 1
        /\ \A i \in HighlightedItems : navItems[i].id = activeSection

\* A scroll event has just moved the highlight to the third item.
C13_Witness ==
    /\ HandlerRan
    /\ phase = "mounted"
    /\ activeSection = "skills"
    /\ HighlightedItems = {3}

\* C14: activeSection is the section matched by the latest handled scroll
\* event whose biased offset was in some section's range, and home when no
\* handled event has matched yet.
C14_ActiveIsLatestMatch ==
    activeSection = IF lastMatch = NoMatchYet THEN "home" ELSE lastMatch

\* The latest event matched nothing; the event that matched about came before it.
C14_Witness ==
    /\ HandlerRan
    /\ Matching(scrollY) = {}
    /\ lastMatch = "about"
    /\ activeSection = "about"

\* C15: scrollToSection leaves isMenuOpen false, whether or not the element
\* exists; only the menu button makes isMenuOpen true; the menu button flips it
\* on each click.
C15_MenuFlag ==
    [][/\ lastOp' \in {"nav", "hero"} => ~isMenuOpen'
       /\ (isMenuOpen' /\ ~isMenuOpen) => lastOp' = "menu"
       /\ lastOp' = "menu" => isMenuOpen' = ~isMenuOpen]_vars

\* A navigation click that started no scroll although no section of the document
\* ends a scroll at the present offset: its element is missing. The menu is closed.
C15_Witness ==
    /\ lastOp = "nav"
    /\ phase = "mounted"
    /\ ~isMenuOpen
    /\ scrollRequest = NoRequest
    /\ present # SectionIds
    /\ \A id \in present : ScrollTarget(id) # scrollY

\* C16: until the first handled scroll event activeSection is home, whatever
\* the scroll offset at mount.
C16_HomeUntilFirstScroll ==
    ~scrolled => activeSection = "home"

\* Mounted with the viewport inside projects, no scroll event yet: home is active.
C16_Witness ==
    /\ phase = "mounted"
    /\ ~scrolled
    /\ Matching(scrollY) = {"projects"}
    /\ activeSection = "home"

\* C17 as stated: when the smooth scroll started by a click on the item of
\* section S has ended and its scroll events were handled, activeSection = S.
C17_ClickedSectionBecomesActive ==
    (settled # NoRequest /\ listeners > 0) => activeSection = settled

====
